---- MODULE Spec2Model ----
(***************************************************************************)
(* State-machine model of app-webpack/lib/quasar-config-file.js: the       *)
(* QuasarConfigFile session (constructor, read(), watch()), the one-shot   *)
(* #build, the esbuild watcher plugin of #buildAndWatch (onStart/onEnd),   *)
(* #computeConfig up to its return, the module-level onAddress, the       *)
(* lodash-debounced rebuild callback. Parts of #computeConfig that work on *)
(* values the session does not otherwise depend on have specifications of  *)
(* their own: formatPublicPath and formatRouterBase on strings, the asset  *)
(* lists (css, boot, ssr.middlewares), the passes over the configuration   *)
(* {} (which paths of cfg each pass reads and writes), and the merge over  *)
(* the defaults with the list and enum passes that follow it.              *)
(*                                                                         *)
(* JavaScript falsy values are kept as such: an absent host is "" and an   *)
(* absent port is 0, so `if (this.#opts.host)` is `opts.host # ""`.        *)
(***************************************************************************)
EXTENDS Integers, Sequences, FiniteSets, TLC

VARIABLES
    ctx,                \* #ctx: [dev, modeName, mode: [ssr, pwa]]
    opts,               \* #opts: [host, port, verifyAddress, watch]
    isWatching,         \* #isWatching
    isFirst,            \* `let isFirst = true` of the watcher plugin's setup
    address,            \* #address: [set, from, to]
    addressRunning,     \* module-level addressRunning
    cachedExternalHost, \* module-level cachedExternalHost ("" = undefined)
    tempFile,           \* TRUE iff the file named #tempFile is on disk
    proc,               \* "running" | "exited" (process.exit / fatal)
    pc,                 \* position of the session's handler
    result,             \* result.errors.length !== 0 of the build handed to onEnd
    cfg,                \* the configuration #computeConfig is deriving
    readPromise,        \* what read() returned: [state, value]
    debounced,          \* lodash state of #opts.watch: [timer, lastArgs]
    delivered,          \* arguments the caller's watch callback was invoked with
    \* observation (history) variables, never read by the program
    ctx0,               \* the ctx object as it was handed to the constructor
    userCfg,            \* what the user's function returned to the current/latest
                        \* cycle: [shape, host, port, ssr]
    returned,           \* what #computeConfig returned to the current/latest cycle
    derived,            \* the configurations #computeConfig returned to rebuilds
    firstRun,           \* the session's first successful derivation: what the user's
                        \* function had returned and #address as the run left it
    cycle,              \* number of compilations started
    outcome,            \* how the latest finished cycle ended: [end, kind]
    warned,             \* warn() was called by the current/latest cycle
    removed,            \* the current/latest cycle deleted the artifact from disk
    probed,             \* the current/latest cycle called onAddress
    hit,                \* the current/latest cycle was served by the #address cache
    sameAsStored,       \* its request equalled the stored #address.from when it was made
    request,            \* the {host, port} the current/latest cycle requested
    scheduled,          \* the current/latest cycle called #opts.watch(quasarConf)
    opened,             \* number of #opts.watch calls that found the timer idle
    negotiated,         \* requested pairs negotiated successfully before this cycle
    prevAddress,        \* #address as it was before its latest assignment
    lookups,            \* number of getExternalIP() calls
    liveStarted,        \* cycles whose onEnd began with isFirst false, #isWatching true
    resolves,           \* number of firstBuildIsDone() calls
    window,             \* arguments passed to #opts.watch since its timer was last idle
    fired,              \* the window closed by the latest invocation of the callback:
                        \* [calls, last, completed]
    \* the helper formatPublicPath, exercised on its own
    publicPath,         \* its argument, a string as the sequence of its characters
    formatted,          \* what the latest call returned
    calls,              \* how many times it has been applied: to publicPath, then
                        \* to its own result
    routerBase,         \* build.vueRouterBase as line 878 leaves it:
                        \* [threw, derived, value]
    \* the asset lists css, boot and ssr.middlewares, normalised on their own
    assets,             \* one list as the merge left it: [field, list]
    parsed,             \* the list after its pass: [ran, list]
    \* one derivation from the user configuration {}, pass by pass
    conf,               \* the paths of cfg that hold a value (not undefined)
    pass,               \* the pass of #computeConfig about to run
    threw,              \* a pass read a property of undefined (TypeError)
    vueDevtools,        \* ctx.vueDevtools
    \* the merge over the defaults and the list and enum passes, on their own
    userFields,         \* what the user's object holds, by path
    rawQuasarConf,      \* the configuration being derived, by path
    merges              \* how many of the three steps have run

sessVars == <<ctx, opts, isWatching, isFirst, address, addressRunning,
          cachedExternalHost, tempFile, proc, pc, result, cfg, readPromise,
          debounced, delivered, cycle, outcome, warned, removed, probed, hit,
          sameAsStored, request, scheduled, opened, negotiated, liveStarted,
          resolves, window, fired, prevAddress, lookups, ctx0, returned,
          derived, userCfg, firstRun>>
pathVars == <<publicPath, formatted, calls, routerBase>>
assetVars == <<assets, parsed>>
passVars == <<conf, pass, threw, vueDevtools>>
mergeVars == <<userFields, rawQuasarConf, merges>>
helperVars == <<pathVars, assetVars, passVars, mergeVars>>
vars == <<sessVars, helperVars>>

sess == <<ctx, ctx0, opts, helperVars>>
addrVars ==
    <<address, addressRunning, cachedExternalHost, negotiated, prevAddress, lookups>>
addrObs == <<probed, hit, sameAsStored, request>>
tailVars ==
    <<isFirst, readPromise, resolves, debounced, window, opened, scheduled, returned>>
deriveObs == <<derived, firstRun>>
fileVars == <<tempFile, removed>>
endVars == <<proc, pc, outcome, warned, cfg>>

\* ------------------------------------------------------------------ bounds
MaxCycles == 3          \* compilations per session (first build + rebuilds)
MaxTail == 3            \* characters after the leading part of a publicPath
MaxUrlTail == 3         \* free characters after the scheme of a publicPath URL
MaxAssets == 3          \* entries of an asset list
MaxList == 2            \* entries of a list the user configures

\* --------------------------------------------------------- input domains
ModeNames == {"spa", "ssr", "pwa", "capacitor"}
OptHosts == {"", "127.0.0.1"}          \* --hostname given or not
OptPorts == {0, 8080}                  \* --port given or not
UserDevServers ==                      \* quasar.config > devServer > host, port
    {[host |-> "", port |-> 0], [host |-> "10.0.0.7", port |-> 9001]}
\* quasar.config > ssr > pwa; it is read in ssr mode only, where the default
\* `pwa: false` is merged under it.
UserSsrPwa(mode) == IF mode.ssr THEN BOOLEAN ELSE {FALSE}
\* What `await quasarConfigFn(ctx)` can answer. An array or a function carries
\* none of the configuration's keys, so the merge leaves the defaults in place.
UserResults(mode) ==
    {[shape |-> "object", host |-> u.host, port |-> u.port, ssr |-> [pwa |-> p]] :
        u \in UserDevServers, p \in UserSsrPwa(mode)}
    \cup {[shape |-> k, host |-> "", port |-> 0, ssr |-> [pwa |-> FALSE]] :
            k \in {"array", "function", "primitive", "null", "undefined"}}
PortShifts == {0, 1}                   \* findClosestOpenPort(port, host) - port
ExternalIP == "192.168.1.20"           \* what getExternalIP() answers

\* build.publicPath values: a leading part that is, or falls short of, an http(s)
\* scheme, followed by up to MaxTail characters.
PathHeads ==
    {<<>>, <<"h">>, <<"h", "t", "t", "p">>, <<"h", "t", "t", "p", ":">>,
     <<"h", "t", "t", "p", ":", "/">>, <<"h", "t", "t", "p", ":", "/", "/">>,
     <<"h", "t", "t", "p", "s", ":", "/">>, <<"h", "t", "t", "p", "s", ":", "/", "/">>,
     <<"H", "T", "T", "P", ":", "/", "/">>, <<"h", "t", "t", "p", "x", ":", "/", "/">>}
PathTails == UNION {[1..n -> {"x", "/"}] : n \in 0..MaxTail}
PublicPaths == {h \o t : h \in PathHeads, t \in PathTails}

\* build.publicPath values for the router base: the characters the pattern of
\* formatRouterBase tells apart, after a scheme in several letter cases.
Chars == {"h", "t", "p", "s", "H", "T", "P", "S", "x", "1", "/", ":", "?", "#"}
Digits == {"1"}
UrlHeads ==
    {<<>>, <<"/">>, <<"h", "t", "t", "p", ":", "/">>,
     <<"h", "t", "t", "p", ":", "/", "/">>, <<"h", "t", "t", "p", "s", ":", "/", "/">>,
     <<"H", "T", "T", "P", ":", "/", "/">>, <<"h", "t", "t", "p", "S", ":", "/", "/">>,
     <<"H", "t", "t", "p", "s", ":", "/", "/">>}
\* host, port, path, query and fragment, each present or not
UrlParts ==
    {<<"x">> \o port \o path \o query \o fragment :
        port \in {<<>>, <<":", "1", "1">>},
        path \in {<<>>, <<"/", "x", "/", "x">>},
        query \in {<<>>, <<"?", "x", "1">>},
        fragment \in {<<>>, <<"#", "h">>}}
UrlTails ==
    UrlParts \cup UNION {[1..n -> {"x", "1", "/", ":", "?", "#"}] : n \in 0..MaxUrlTail}
UrlPaths == {h \o t : h \in UrlHeads, t \in UrlTails}
\* quasar.config > build > vueRouterBase: left out, or given
VueRouterBases == {[set |-> FALSE, value |-> <<>>], [set |-> TRUE, value |-> <<"/", "x", "/">>]}

\* The prefix of parseAssetProperty(prefix) for each of the three lists.
AssetPrefix(field) ==
    CASE field = "css" -> <<"s", "r", "c", "/", "c", "s", "s">>
      [] field = "boot" -> <<"b", "o", "o", "t">>
      [] field = "middlewares" -> <<"a", "p", "p", "/", "s", "r", "c", "-", "s", "s", "r",
                                    "/", "m", "i", "d", "d", "l", "e", "w", "a", "r",
                                    "e", "s">>

\* Entries of css, boot or ssr.middlewares: null, a string, or an object whose
\* path is a string or is missing; `tag` stands for the object's other properties.
AssetNames(field) ==
    {<<>>, <<"~">>, <<"a">>, <<"b">>, <<"~", "a">>,
     <<"~">> \o AssetPrefix(field) \o <<"/", "a">>}
AssetEntries(field) ==
    {[kind |-> "null", hasPath |-> FALSE, path |-> <<>>, tag |-> "none"]}
    \cup {[kind |-> "string", hasPath |-> TRUE, path |-> n, tag |-> "none"] :
            n \in AssetNames(field)}
    \cup {[kind |-> "object", hasPath |-> TRUE, path |-> n, tag |-> "server"] :
            n \in {<<"a">>, <<"~">> \o AssetPrefix(field) \o <<"/", "a">>}}
    \cup {[kind |-> "object", hasPath |-> FALSE, path |-> <<>>, tag |-> "server"]}
AssetLists(field) == UNION {[1..n -> AssetEntries(field)] : n \in 0..MaxAssets}

\* Values of a configuration, by kind: a key that is not there, a scalar, a list.
Absent == [kind |-> "absent", value |-> "", items |-> <<>>]
Scalar(v) == [kind |-> "scalar", value |-> v, items |-> <<>>]
List(l) == [kind |-> "list", value |-> "", items |-> l]

\* The paths followed through the merge: three lists and two scalars.
Fields ==
    {"extras", "framework.plugins", "framework.autoImportComponentCase",
     "eslint.include", "eslint.formatter"}
UserLists == UNION {[1..n -> {"a", "b"}] : n \in 0..MaxList}
UserCases == {Absent, Scalar("kebab"), Scalar("pascal"), Scalar("combined"), Scalar("camel")}
UserFormatters == {Absent, Scalar("json")}

\* ------------------------------------------------------ program constants
defaultPortMapping ==
    [m \in {"spa", "ssr", "pwa", "electron", "cordova", "capacitor"} |->
        CASE m = "spa" -> 9000
          [] m = "ssr" -> 9100
          [] m = "pwa" -> 9200
          [] m = "electron" -> 9300
          [] m = "cordova" -> 9400
          [] m = "capacitor" -> 9500]

localHostList == {"0.0.0.0", "localhost", "127.0.0.1", "::1"}

\* ------------------------------------------------------------------ values
NoAddr == [host |-> "", port |-> 0]
Undefined ==
    [src |-> 0, host |-> "", port |-> 0, ssr |-> [pwa |-> FALSE], stage |-> "undefined"]
NoOutcome == [end |-> "none", kind |-> "none"]
NoUserCfg == [shape |-> "none", host |-> "", port |-> 0, ssr |-> [pwa |-> FALSE]]
NoPromise == [state |-> "none", value |-> Undefined]

\* ------------------------------------------------------------------- Init
\* The ctx objects handed to the constructor, for the given modes.
Contexts(modes) ==
    {[dev |-> d, modeName |-> m, mode |-> [ssr |-> (m = "ssr"), pwa |-> (m = "pwa")]] :
        d \in BOOLEAN, m \in modes}

\* The fields and module-level variables other than #ctx and #opts.
InitFields ==
    /\ isWatching = FALSE
    /\ isFirst = TRUE
    /\ address = [set |-> FALSE, from |-> NoAddr, to |-> NoAddr]
    /\ addressRunning = FALSE
    /\ cachedExternalHost = ""
    /\ tempFile = FALSE
    /\ proc = "running"
    /\ pc = "new"
    /\ result = FALSE
    /\ cfg = Undefined
    /\ readPromise = NoPromise
    /\ debounced = [timer |-> FALSE, lastArgs |-> Undefined]
    /\ delivered = <<>>
    /\ cycle = 0
    /\ outcome = NoOutcome
    /\ warned = FALSE
    /\ removed = FALSE
    /\ probed = FALSE
    /\ hit = FALSE
    /\ sameAsStored = FALSE
    /\ request = NoAddr
    /\ scheduled = FALSE
    /\ opened = 0
    /\ negotiated = {}
    /\ prevAddress = [set |-> FALSE, from |-> NoAddr, to |-> NoAddr]
    /\ lookups = 0
    /\ liveStarted = {}
    /\ resolves = 0
    /\ window = <<>>
    /\ fired = [calls |-> 0, last |-> Undefined, completed |-> 0]
    /\ returned = Undefined
    /\ derived = <<>>
    /\ userCfg = NoUserCfg
    /\ firstRun = [inp |-> NoUserCfg,
                   addr |-> [set |-> FALSE, from |-> NoAddr, to |-> NoAddr]]

\* The state after `new QuasarConfigFile({ ctx, host, port, verifyAddress, watch })`.
InitSession ==
    /\ ctx \in Contexts(ModeNames)
    /\ ctx0 = ctx
    /\ opts \in [host : OptHosts, port : OptPorts,
                 verifyAddress : BOOLEAN, watch : BOOLEAN]
    /\ InitFields

NoRouterBase == [threw |-> FALSE, derived |-> FALSE, value |-> <<>>]
NoAssets == [field |-> "none", list |-> <<>>]
NotParsed == [ran |-> FALSE, list |-> <<>>]
NoPasses == conf = {} /\ pass = 0 /\ threw = FALSE /\ vueDevtools = FALSE
NoMerge == userFields = <<>> /\ rawQuasarConf = <<>> /\ merges = 0

Init ==
    /\ InitSession
    /\ publicPath = <<>>
    /\ formatted = <<>>
    /\ calls = 0
    /\ routerBase = NoRouterBase
    /\ assets = NoAssets
    /\ parsed = NotParsed
    /\ NoPasses
    /\ NoMerge

\* ------------------------------------------------- process-level effects
\* process.exit(1): no handler, continuation or timer of the process runs again.
ProcessExit(kind, w) ==
    /\ proc' = "exited"
    /\ pc' = "done"
    /\ outcome' = [end |-> "fatal", kind |-> kind]
    /\ warned' = w
    /\ cfg' = Undefined
    /\ UNCHANGED tailVars

\* fatal(msg, 'FAIL') of utils/logger.js: prints the message and ends the process.
fatal(kind) == ProcessExit(kind, warned)

\* Which failure sites call fse.removeSync(#tempFile) before reporting, plus the
\* unconditional removal once the user function has returned an object.
RemovesTempFile_NotOnShape(site) == site \in {"compile", "accepted"}
RemovesTempFile_NotOnAccept(site) == site \in {"compile", "notFunction", "notObject"}
RemovesTempFile(site) == site \in {"compile", "notFunction", "notObject", "accepted"}

\* The effect on disk of leaving through `site`.
Unlink(site) ==
    /\ tempFile' = IF RemovesTempFile(site) THEN FALSE ELSE tempFile
    /\ removed' = (removed \/ (RemovesTempFile(site) /\ tempFile))

\* failOnError of the active #computeConfig call: `true` from #build,
\* `isFirst` from the watcher's onEnd.
FailOnError_Never == FALSE
FailOnError == IF opts.watch THEN isFirst ELSE TRUE

\* ------------------------------------------------------------- debounce
\* A call of the debounced function (lodash debounce(watch, 550), trailing edge):
\* the timer is (re)started and the latest arguments replace the remembered ones.
Debounce_KeepFirst(d, arg) ==
    [timer |-> TRUE, lastArgs |-> IF d.timer THEN d.lastArgs ELSE arg]
Debounce_Merge(d, arg) ==
    [timer |-> TRUE,
     lastArgs |-> IF d.timer THEN [arg EXCEPT !.port = d.lastArgs.port] ELSE arg]
Debounce(d, arg) == [timer |-> TRUE, lastArgs |-> arg]

\* The 550 ms timer elapses with no further call: the caller's callback runs once,
\* with the remembered arguments.
DebounceInvoke ==
    /\ proc = "running"
    /\ debounced.timer
    /\ delivered' = Append(delivered, debounced.lastArgs)
    /\ debounced' = [timer |-> FALSE, lastArgs |-> Undefined]
    /\ fired' = [calls |-> Len(window), last |-> window[Len(window)],
                 completed |-> IF outcome.end # "none" THEN cycle ELSE cycle - 1]
    /\ window' = <<>>
    /\ UNCHANGED <<sess, deriveObs, userCfg, isWatching, isFirst, addrVars,
                   addrObs, fileVars, endVars, result, readPromise, cycle,
                   scheduled, opened, liveStarted, resolves, returned>>

\* ----------------------------------------------------- how a cycle returns
\* onEnd after `const quasarConf = await this.#computeConfig(...)`.
OnEndTail_NoGuard(quasarConf) ==
    /\ pc' = "idle"
    /\ returned' = quasarConf
    /\ IF isFirst
       THEN /\ isFirst' = FALSE
            /\ readPromise' = [state |-> "resolved", value |-> quasarConf]
            /\ resolves' = resolves + 1
            /\ UNCHANGED <<debounced, window, opened, scheduled>>
       ELSE /\ debounced' = Debounce(debounced, quasarConf)
            /\ window' = Append(window, quasarConf)
            /\ opened' = opened + (IF debounced.timer THEN 0 ELSE 1)
            /\ scheduled' = TRUE
            /\ UNCHANGED <<isFirst, readPromise, resolves>>
OnEndTail_NoFirst(quasarConf) ==
    /\ pc' = "idle"
    /\ returned' = quasarConf
    /\ IF quasarConf = Undefined
       THEN UNCHANGED <<isFirst, readPromise, resolves, debounced, window, opened,
                        scheduled>>
       ELSE /\ debounced' = Debounce(debounced, quasarConf)
            /\ window' = Append(window, quasarConf)
            /\ opened' = opened + (IF debounced.timer THEN 0 ELSE 1)
            /\ scheduled' = TRUE
            /\ isFirst' = FALSE
            /\ UNCHANGED <<readPromise, resolves>>
OnEndTail(quasarConf) ==
    /\ pc' = "idle"
    /\ returned' = quasarConf
    /\ IF quasarConf = Undefined
       THEN UNCHANGED <<isFirst, readPromise, resolves, debounced, window, opened,
                        scheduled>>
       ELSE IF isFirst
       THEN /\ isFirst' = FALSE
            /\ readPromise' = [state |-> "resolved", value |-> quasarConf]
            /\ resolves' = resolves + 1
            /\ UNCHANGED <<debounced, window, opened, scheduled>>
       ELSE /\ debounced' = Debounce(debounced, quasarConf)
            /\ window' = Append(window, quasarConf)
            /\ opened' = opened + (IF debounced.timer THEN 0 ELSE 1)
            /\ scheduled' = TRUE
            /\ UNCHANGED <<isFirst, readPromise, resolves>>

\* #build: `return this.#computeConfig(quasarConfigFn, true)` settles read()'s promise.
BuildReturn(quasarConf) ==
    /\ pc' = "done"
    /\ readPromise' = [state |-> "resolved", value |-> quasarConf]
    /\ resolves' = resolves + 1
    /\ returned' = quasarConf
    /\ UNCHANGED <<isFirst, debounced, window, opened, scheduled>>

\* #computeConfig hands its value to whichever of the two called it.
Return(quasarConf) ==
    IF opts.watch THEN OnEndTail(quasarConf) ELSE BuildReturn(quasarConf)

\* `if (failOnError === true) { fatal(msg, 'FAIL') }  warn(msg); return`
ComputeFail_ReturnsPartial(kind) ==
    IF FailOnError
    THEN fatal(kind)
    ELSE /\ warned' = TRUE
         /\ outcome' = [end |-> "warned", kind |-> kind]
         /\ cfg' = Undefined
         /\ UNCHANGED proc
         /\ Return(cfg)
ComputeFail(kind) ==
    IF FailOnError
    THEN fatal(kind)
    ELSE /\ warned' = TRUE
         /\ outcome' = [end |-> "warned", kind |-> kind]
         /\ cfg' = Undefined
         /\ UNCHANGED proc
         /\ Return(Undefined)

\* `if (isFirst === true) { fatal(msg, 'FAIL') }  warn(msg); return` of onEnd
OnEndFail(kind) ==
    IF isFirst
    THEN fatal(kind)
    ELSE /\ warned' = TRUE
         /\ outcome' = [end |-> "warned", kind |-> kind]
         /\ cfg' = Undefined
         /\ pc' = "idle"
         /\ UNCHANGED <<proc, tailVars>>

\* A new cycle starts: the per-cycle observations are cleared.
CycleReset ==
    /\ outcome' = NoOutcome
    /\ warned' = FALSE
    /\ removed' = FALSE
    /\ probed' = FALSE
    /\ hit' = FALSE
    /\ sameAsStored' = FALSE
    /\ request' = NoAddr
    /\ scheduled' = FALSE
    /\ returned' = Undefined
    /\ userCfg' = NoUserCfg

\* ------------------------------------------------------------ the caller
\* read(): #build in one-shot mode; in watch mode #buildAndWatch registers the
\* watcher plugin, starts esbuild's watch and returns the pending promise.
\* firstBuildIsDone is assigned right after `await esbuildCtx.watch()`, before the
\* first build's onEnd can have run through its own awaits.
Read ==
    /\ proc = "running"
    /\ pc = "new"
    /\ readPromise' = [state |-> "pending", value |-> Undefined]
    /\ pc' = IF opts.watch THEN "idle" ELSE "build"
    /\ UNCHANGED <<sess, deriveObs, userCfg, isWatching, isFirst, addrVars,
                   addrObs, fileVars, proc, outcome, warned, cfg, result,
                   debounced, delivered, cycle, scheduled, opened, liveStarted,
                   resolves, window, fired, returned>>

\* watch(): `this.#isWatching = true`
Watch_Toggle ==
    /\ proc = "running"
    /\ opts.watch
    /\ isWatching' = ~isWatching
    /\ UNCHANGED <<sess, deriveObs, userCfg, isFirst, addrVars, addrObs,
                   fileVars, endVars, result, readPromise, debounced, delivered,
                   cycle, scheduled, opened, liveStarted, resolves, window,
                   fired, returned>>
Watch ==
    /\ proc = "running"
    /\ opts.watch
    /\ ~isWatching
    /\ isWatching' = TRUE
    /\ UNCHANGED <<sess, deriveObs, userCfg, isFirst, addrVars, addrObs,
                   fileVars, endVars, result, readPromise, debounced, delivered,
                   cycle, scheduled, opened, liveStarted, resolves, window,
                   fired, returned>>

\* ------------------------------------------------------- one-shot #build
\* `await esBuild(esbuildConfig)`: on errors remove the artifact and fatal().
Build ==
    /\ proc = "running"
    /\ pc = "build"
    /\ cycle' = cycle + 1
    /\ \E errors \in BOOLEAN :
        IF errors
        THEN /\ Unlink("compile")
             /\ fatal("compile")
        ELSE /\ tempFile' = TRUE
             /\ pc' = "import"
             /\ UNCHANGED <<proc, outcome, warned, cfg, removed, tailVars>>
    /\ UNCHANGED <<sess, deriveObs, userCfg, isWatching, addrVars, addrObs,
                   result, delivered, liveStarted, fired>>

\* ------------------------------------------------ #computeConfig, by await
\* Entry: `if (typeof quasarConfigFn !== 'function')`, else the user function is
\* called and awaited.
ComputeEnter(isFunction) ==
    IF ~isFunction
    THEN /\ Unlink("notFunction")
         /\ ComputeFail("notFunction")
    ELSE /\ pc' = "userFn"
         /\ UNCHANGED <<fileVars, proc, outcome, warned, cfg, tailVars>>

\* #build: `await import(pathToFileURL(this.#tempFile))`, then #computeConfig(fn, true).
BuildImport ==
    /\ proc = "running"
    /\ ~opts.watch
    /\ pc = "import"
    /\ \E r \in {"throws", "notFunction", "function"} :
        IF r = "throws"
        THEN fatal("import") /\ UNCHANGED fileVars
        ELSE ComputeEnter(r = "function")
    /\ UNCHANGED <<sess, deriveObs, userCfg, isWatching, addrVars, addrObs,
                   result, delivered, cycle, liveStarted, fired>>

\* ------------------------------------------------ the watcher plugin
\* esbuild (re)builds in watch mode: onStart runs, the module is compiled, and the
\* outfile is written when there are no errors. esbuild awaits the onEnd
\* callbacks of a build before it starts the next one.
EsbuildBuild ==
    /\ proc = "running"
    /\ opts.watch
    /\ pc = "idle"
    /\ cycle < MaxCycles
    /\ cycle' = cycle + 1
    /\ \E errors \in BOOLEAN :
        /\ result' = errors
        /\ tempFile' = (tempFile \/ ~errors)
    /\ CycleReset
    /\ pc' = "onEnd"
    /\ UNCHANGED <<sess, deriveObs, isWatching, isFirst, addrVars, proc, cfg,
                   readPromise, resolves, debounced, window, opened, delivered,
                   liveStarted, fired>>

\* `if (isFirst === false && this.#isWatching === false) return`
NotReady_Never == FALSE
NotReady == isFirst = FALSE /\ isWatching = FALSE

\* onEnd up to its first await: the not-ready return, the compile-error branch,
\* otherwise the (cache-busted) import of the artifact is started.
OnEnd ==
    /\ proc = "running"
    /\ pc = "onEnd"
    /\ liveStarted' = IF ~isFirst /\ isWatching
                      THEN liveStarted \cup {cycle} ELSE liveStarted
    /\ IF NotReady
       THEN /\ pc' = "idle"
            /\ outcome' = [end |-> "discarded", kind |-> "none"]
            /\ UNCHANGED <<proc, warned, cfg, tailVars, fileVars>>
       ELSE IF result
       THEN /\ Unlink("compile")
            /\ OnEndFail("compile")
       ELSE /\ pc' = "import"
            /\ UNCHANGED <<proc, outcome, warned, cfg, tailVars, fileVars>>
    /\ UNCHANGED <<sess, deriveObs, userCfg, isWatching, addrVars, addrObs,
                   result, delivered, cycle, fired>>

\* onEnd: the import/require settles; on success #computeConfig(fn, isFirst) starts.
OnEndImport ==
    /\ proc = "running"
    /\ opts.watch
    /\ pc = "import"
    /\ \E r \in {"throws", "notFunction", "function"} :
        IF r = "throws"
        THEN OnEndFail("import") /\ UNCHANGED fileVars
        ELSE ComputeEnter(r = "function")
    /\ UNCHANGED <<sess, deriveObs, userCfg, isWatching, addrVars, addrObs,
                   result, delivered, cycle, liveStarted, fired>>

\* `Object(userCfg) !== userCfg` is false: the value is not a primitive, null or
\* undefined.
IsObject_PlainOnly(shape) == shape = "object"
IsObject(shape) == shape \in {"object", "array", "function"}

\* `userCfg = await quasarConfigFn(this.#ctx)`, the Object(userCfg) check, the
\* removal of the artifact, the merge over the default skeleton; the extension
\* hooks are then awaited.
ComputeUserFn ==
    /\ proc = "running"
    /\ pc = "userFn"
    /\ \/ ComputeFail("userThrow") /\ UNCHANGED <<fileVars, userCfg>>
       \/ \E u \in UserResults(ctx.mode) :
            /\ userCfg' = u
            /\ IF ~IsObject(u.shape)
               THEN /\ Unlink("notObject")
                    /\ ComputeFail("notObject")
               ELSE /\ Unlink("accepted")
                    /\ cfg' = [src |-> cycle, host |-> u.host, port |-> u.port,
                               ssr |-> u.ssr, stage |-> "merged"]
                    /\ pc' = "extHook"
                    /\ UNCHANGED <<proc, outcome, warned, tailVars>>
    /\ UNCHANGED <<sess, deriveObs, isWatching, addrVars, addrObs, result,
                   delivered, cycle, liveStarted, fired>>

\* The host/port the dev server is asked to use: --hostname/--port first, then
\* quasar.config > devServer, then '0.0.0.0' and the mode's default port.
Requested(c) ==
    [host |-> IF opts.host # "" THEN opts.host
              ELSE IF c.host # "" THEN c.host ELSE "0.0.0.0",
     port |-> IF opts.port # 0 THEN opts.port
              ELSE IF c.port # 0 THEN c.port
              ELSE defaultPortMapping[ctx.modeName]
                       + (IF ctx.mode.ssr /\ c.ssr.pwa THEN 50 ELSE 0)]

\* `this.#address && this.#address.from.host === host && this.#address.from.port === port`
AddressHit_HostOnly(a, r) == a.set /\ a.from.host = r.host
AddressHit(a, r) == a.set /\ a.from.host = r.host /\ a.from.port = r.port

\* `this.#address = { from: addr, to: { host: cfg.devServer.host, port: ... } }`
StoreAddress_OnlyIfBoundDiffers(from, to) ==
    IF address.set /\ address.to = to
    THEN address
    ELSE [set |-> TRUE, from |-> from, to |-> to]
StoreAddress(from, to) == [set |-> TRUE, from |-> from, to |-> to]

\* `cfg.devServer.host = this.#address.to.host; cfg.devServer.port = ...to.port`
FromCache_Requested(c, a) ==
    [c EXCEPT !.host = a.from.host, !.port = a.from.port, !.stage = "addressed"]
FromCache(c, a) ==
    [c EXCEPT !.host = a.to.host, !.port = a.to.port, !.stage = "addressed"]

\* The extension hooks settle; then, in dev, the dev-server address: served from
\* #address, or negotiated by onAddress (awaited), or taken as requested when
\* verifyAddress is off.
ComputeExtHook ==
    /\ proc = "running"
    /\ pc = "extHook"
    /\ \/ /\ ComputeFail("extHook")
          /\ UNCHANGED <<addrVars, addrObs>>
       \/ /\ ~ctx.dev
          /\ cfg' = [cfg EXCEPT !.stage = "extended"]
          /\ pc' = "derive"
          /\ UNCHANGED <<proc, outcome, warned, tailVars, addrVars, addrObs>>
       \/ /\ ctx.dev
          /\ LET r == Requested(cfg) IN
             /\ request' = r
             /\ sameAsStored' = (address.set /\ address.from = r)
             /\ IF AddressHit(address, r)
                THEN /\ cfg' = FromCache(cfg, address)
                     /\ hit' = TRUE
                     /\ pc' = "derive"
                     /\ UNCHANGED <<probed, addrVars>>
                ELSE IF opts.verifyAddress
                THEN /\ cfg' = [cfg EXCEPT !.host = r.host, !.port = r.port,
                                           !.stage = "extended"]
                     /\ probed' = TRUE
                     /\ pc' = "onAddress"
                     /\ UNCHANGED <<hit, addrVars>>
                ELSE /\ cfg' = [cfg EXCEPT !.host = r.host, !.port = r.port,
                                           !.stage = "addressed"]
                     /\ address' = StoreAddress(r, r)
                     /\ prevAddress' = address
                     /\ negotiated' = negotiated \cup {r}
                     /\ pc' = "derive"
                     /\ UNCHANGED <<hit, probed, addressRunning, cachedExternalHost,
                                    lookups>>
          /\ UNCHANGED <<proc, outcome, warned, tailVars>>
    /\ UNCHANGED <<sess, deriveObs, userCfg, isWatching, fileVars, result,
                   delivered, cycle, liveStarted, fired>>

\* onAddress's catch block and what #computeConfig does with the null it returns:
\* `if (addressRunning === false) { process.exit(1) }  return null`, then
\* `if (to === null) { if (failOnError === true) fatal(...); warn(...); return }`.
OnAddressFail_AlwaysExit == ProcessExit("address", TRUE)
OnAddressFail ==
    IF addressRunning = FALSE
    THEN ProcessExit("address", TRUE)
    ELSE ComputeFail("address")

\* onAddress({ host, port }, mode) settles: the host is rewritten to the external
\* address for cordova/capacitor, findClosestOpenPort answers a port or throws.
\* `[ 'cordova', 'capacitor' ].includes(mode) && (!host ||
\* localHostList.includes(host.toLowerCase()))`
RewritesHost(host, mode) ==
    /\ mode \in {"cordova", "capacitor"}
    /\ (host = "" \/ host \in localHostList)

\* `if (cachedExternalHost) { host = cachedExternalHost } else { host = await
\* getExternalIP(); cachedExternalHost = host }`
ExternalHost_AlwaysLookup(cached) == [host |-> ExternalIP, lookup |-> TRUE]
ExternalHost(cached) ==
    IF cached # ""
    THEN [host |-> cached, lookup |-> FALSE]
    ELSE [host |-> ExternalIP, lookup |-> TRUE]

ComputeOnAddress ==
    /\ proc = "running"
    /\ pc = "onAddress"
    /\ LET rewrite == RewritesHost(request.host, ctx.modeName)
           external == ExternalHost(cachedExternalHost)
           host == IF rewrite THEN external.host ELSE request.host
       IN
       /\ cachedExternalHost' = IF rewrite THEN host ELSE cachedExternalHost
       /\ lookups' = lookups + (IF rewrite /\ external.lookup THEN 1 ELSE 0)
       /\ \/ /\ OnAddressFail
             /\ UNCHANGED <<address, addressRunning, negotiated, prevAddress>>
          \/ \E d \in PortShifts :
               LET to == [host |-> host, port |-> request.port + d] IN
               /\ addressRunning' = TRUE
               /\ cfg' = [cfg EXCEPT !.host = to.host, !.port = to.port,
                                     !.stage = "addressed"]
               /\ address' = StoreAddress(request, to)
               /\ prevAddress' = address
               /\ negotiated' = negotiated \cup {request}
               /\ pc' = "derive"
               /\ warned' = (warned \/ d # 0)
               /\ UNCHANGED <<proc, outcome, tailVars>>
    /\ UNCHANGED <<sess, deriveObs, userCfg, isWatching, addrObs, fileVars,
                   result, delivered, cycle, liveStarted, fired>>

\* `if (this.#ctx.mode.ssr) { ... this.#ctx.mode.pwa = cfg.ctx.mode.pwa =
\* cfg.ssr.pwa === true }`: what the ssr block leaves in the session's ctx.
CtxAfterSsr_AllModes(c, q) == [c EXCEPT !.mode.pwa = q.ssr.pwa]
CtxAfterSsr(c, q) ==
    IF c.mode.ssr THEN [c EXCEPT !.mode.pwa = q.ssr.pwa] ELSE c

\* The remaining passes: files validation, the ssr block, the workboxMode check
\* made when ctx.mode.pwa is set, `return cfg`.
ComputeDerive ==
    /\ proc = "running"
    /\ pc = "derive"
    /\ \/ /\ ComputeFail("files")
          /\ UNCHANGED ctx
       \/ /\ ctx' = CtxAfterSsr(ctx, cfg)
          /\ \/ /\ ctx'.mode.pwa
                /\ ComputeFail("workbox")
             \/ /\ outcome' = [end |-> "success", kind |-> "none"]
                /\ cfg' = Undefined
                /\ Return([cfg EXCEPT !.stage = "complete"])
                /\ UNCHANGED <<proc, warned>>
    /\ derived' = IF opts.watch /\ ~isFirst /\ outcome'.end = "success"
                  THEN Append(derived, [cfg EXCEPT !.stage = "complete"])
                  ELSE derived
    /\ firstRun' = IF resolves = 0 /\ outcome'.end = "success"
                   THEN [inp |-> userCfg, addr |-> address]
                   ELSE firstRun
    /\ UNCHANGED <<ctx0, opts, helperVars, userCfg, isWatching, addrVars, addrObs,
                   fileVars, result, delivered, cycle, liveStarted, fired>>

\* ------------------------------------------------------------ behaviours
Next ==
    \/ Read
    \/ Watch
    \/ Build
    \/ BuildImport
    \/ EsbuildBuild
    \/ OnEnd
    \/ OnEndImport
    \/ ComputeUserFn
    \/ ComputeExtHook
    \/ ComputeOnAddress
    \/ ComputeDerive
    \/ DebounceInvoke

Spec == Init /\ [][Next]_vars

\* A watch session on its own: the constructor was given a watch callback, so
\* read() takes #buildAndWatch and #build never runs. The modes are those whose
\* derivation leaves #ctx alone; what a rebuild hands to the callback and when
\* does not depend on the mode.
LiveModes == ModeNames \ {"ssr"}
InitLive == Init /\ opts.watch /\ ctx.modeName \in LiveModes

NextLive ==
    \/ Read
    \/ Watch
    \/ EsbuildBuild
    \/ OnEnd
    \/ OnEndImport
    \/ ComputeUserFn
    \/ ComputeExtHook
    \/ ComputeOnAddress
    \/ ComputeDerive
    \/ DebounceInvoke

\* lodash's debounce arms a timer (setTimeout, 550 ms) on every call; the event
\* loop runs an armed timer once it has elapsed, so a pending invocation is not
\* postponed for ever. Nothing obliges the file to change again, the user's
\* function to settle or the caller to call watch().
SpecLive == InitLive /\ [][NextLive]_vars /\ WF_vars(DebounceInvoke)

\* ------------------------------------------------------- formatPublicPath
\* String.prototype.toLowerCase, on the characters used here.
ToLowerCase(str) ==
    [i \in DOMAIN str |->
        CASE str[i] = "H" -> "h"
          [] str[i] = "T" -> "t"
          [] str[i] = "P" -> "p"
          [] str[i] = "S" -> "s"
          [] OTHER -> str[i]]

StartsWith(str, prefix) ==
    Len(str) >= Len(prefix) /\ SubSeq(str, 1, Len(prefix)) = prefix

EndsWith(str, suffix) ==
    /\ Len(str) >= Len(suffix)
    /\ SubSeq(str, Len(str) - Len(suffix) + 1, Len(str)) = suffix

\* urlRegex.test(str), urlRegex = /^http(s)?:\/\//i
urlRegex(str) ==
    \/ StartsWith(ToLowerCase(str), <<"h", "t", "t", "p", ":", "/", "/">>)
    \/ StartsWith(ToLowerCase(str), <<"h", "t", "t", "p", "s", ":", "/", "/">>)

formatPublicPath_LeadingFirst(path) ==
    IF path = <<>>
    THEN <<"/">>
    ELSE LET led == IF ~StartsWith(path, <<"/">>) THEN <<"/">> \o path ELSE path
         IN IF ~EndsWith(led, <<"/">>) THEN led \o <<"/">> ELSE led
formatPublicPath(path) ==
    IF path = <<>>
    THEN <<"/">>
    ELSE LET slashed == IF ~EndsWith(path, <<"/">>) THEN path \o <<"/">> ELSE path
         IN IF urlRegex(slashed)
            THEN slashed
            ELSE IF ~StartsWith(slashed, <<"/">>)
            THEN <<"/">> \o slashed
            ELSE slashed

\* The helper is called on a build.publicPath, then on its own result.
InitPath ==
    /\ InitSession
    /\ ctx.modeName = "spa"
    /\ ~ctx.dev
    /\ opts = [host |-> "", port |-> 0, verifyAddress |-> FALSE, watch |-> FALSE]
    /\ publicPath \in PublicPaths
    /\ formatted = <<>>
    /\ calls = 0
    /\ routerBase = NoRouterBase
    /\ assets = NoAssets
    /\ parsed = NotParsed
    /\ NoPasses
    /\ NoMerge

Format ==
    /\ calls = 0
    /\ formatted' = formatPublicPath(publicPath)
    /\ calls' = 1
    /\ UNCHANGED <<sessVars, assetVars, passVars, mergeVars, publicPath, routerBase>>

FormatAgain ==
    /\ calls = 1
    /\ formatted' = formatPublicPath(formatted)
    /\ calls' = 2
    /\ UNCHANGED <<sessVars, assetVars, passVars, mergeVars, publicPath, routerBase>>

NextPath ==
    \/ Format
    \/ FormatAgain

SpecPath == InitPath /\ [][NextPath]_vars

\* ------------------------------------------------------- formatRouterBase
\* How many characters of str, from position i on, a greedy quantifier over the
\* character class takes.
Greedy(str, i, class) ==
    CHOOSE n \in 0..(Len(str) - i + 1) :
        /\ \A k \in i..(i + n - 1) : str[k] \in class
        /\ (i + n > Len(str) \/ str[i + n] \notin class)

\* publicPath.match(/^(https?\:)\/\/(([^:\/?#]*)(?:\:([0-9]+))?)([\/]{0,1}[^?#]*)
\* (\?[^#]*|)(#.*|)$/): null, or the match with its group 5. The pattern has no
\* `i` flag. Past the scheme the first, greedy, attempt always succeeds, the last
\* two groups accepting whatever remains, so the groups are the greedy ones.
RouterBaseMatch(str) ==
    LET scheme == IF StartsWith(str, <<"h", "t", "t", "p", "s", ":", "/", "/">>) THEN 8
                  ELSE IF StartsWith(str, <<"h", "t", "t", "p", ":", "/", "/">>) THEN 7
                  ELSE 0
        host == Greedy(str, scheme + 1, Chars \ {":", "/", "?", "#"})
        p == scheme + 1 + host
        port == IF p <= Len(str) /\ str[p] = ":" THEN Greedy(str, p + 1, Digits) ELSE 0
        q == IF port > 0 THEN p + 1 + port ELSE p
        path == Greedy(str, q, Chars \ {"?", "#"})
    IN IF scheme = 0
       THEN [null |-> TRUE, g5 |-> <<>>]
       ELSE [null |-> FALSE, g5 |-> SubSeq(str, q, q + path - 1)]

\* formatRouterBase(publicPath); `match[ 5 ]` of a null match throws a TypeError.
formatRouterBase(path) ==
    IF path = <<>> \/ ~StartsWith(path, <<"h", "t", "t", "p">>)
    THEN [threw |-> FALSE, derived |-> TRUE, value |-> path]
    ELSE LET match == RouterBaseMatch(path)
         IN IF match.null
            THEN [threw |-> TRUE, derived |-> TRUE, value |-> <<>>]
            ELSE [threw |-> FALSE, derived |-> TRUE, value |-> formatPublicPath(match.g5)]

\* The two passes of #computeConfig that end in build.vueRouterBase, for a
\* build.publicPath as the merge left it.
InitBase ==
    /\ InitSession
    /\ ~ctx.dev
    /\ opts = [host |-> "", port |-> 0, verifyAddress |-> FALSE, watch |-> FALSE]
    /\ publicPath \in UrlPaths
    /\ formatted = <<>>
    /\ calls = 0
    /\ routerBase = NoRouterBase
    /\ assets = NoAssets
    /\ parsed = NotParsed
    /\ NoPasses
    /\ NoMerge

\* `cfg.build.publicPath = cfg.build.publicPath && [ 'spa', 'pwa', 'ssr' ]
\* .includes(this.#ctx.modeName) ? formatPublicPath(cfg.build.publicPath) : (...)`
PublicPathPass ==
    /\ calls = 0
    /\ formatted' =
           IF publicPath # <<>> /\ ctx.modeName \in {"spa", "pwa", "ssr"}
           THEN formatPublicPath(publicPath)
           ELSE IF ctx.modeName \in {"capacitor", "cordova", "electron", "bex"}
           THEN <<>>
           ELSE <<"/">>
    /\ calls' = 1
    /\ UNCHANGED <<sessVars, assetVars, passVars, mergeVars, publicPath, routerBase>>

\* `cfg.build.vueRouterBase = cfg.build.vueRouterBase !== void 0
\*    ? cfg.build.vueRouterBase : formatRouterBase(cfg.build.publicPath)`
RouterBasePass ==
    /\ calls = 1
    /\ \E given \in VueRouterBases :
          routerBase' = IF given.set
                        THEN [threw |-> FALSE, derived |-> FALSE, value |-> given.value]
                        ELSE formatRouterBase(formatted)
    /\ calls' = 2
    /\ UNCHANGED <<sessVars, assetVars, passVars, mergeVars, publicPath, formatted>>

NextBase ==
    \/ PublicPathPass
    \/ RouterBasePass

SpecBase == InitBase /\ [][NextBase]_vars

\* ------------------------------------- parseAssetProperty, uniquePathFilter
\* JavaScript truthiness of an entry: null and '' are falsy, objects are truthy.
Truthy(asset) ==
    /\ asset.kind # "null"
    /\ asset.kind = "string" => asset.path # <<>>

\* `path[ 0 ] === '~' ? path.substring(1) : prefix + `/${ path }``
AssetPath(prefix, path) ==
    IF path # <<>> /\ path[1] = "~" THEN Tail(path) ELSE prefix \o <<"/">> \o path

\* parseAssetProperty(prefix)(asset): { path } for a string, and for an object
\* { ...asset, path } with a path that is not a string left as it is.
parseAssetProperty(prefix, asset) ==
    IF asset.kind = "string"
    THEN [hasPath |-> TRUE, path |-> AssetPath(prefix, asset.path), tag |-> "none"]
    ELSE [hasPath |-> asset.hasPath,
          path |-> IF asset.hasPath THEN AssetPath(prefix, asset.path) ELSE asset.path,
          tag |-> asset.tag]

\* `asset => asset.path`: a missing or empty path is falsy.
HasPath(asset) == asset.hasPath /\ asset.path # <<>>

\* Array.prototype.indexOf / lastIndexOf on the list of paths (0 for -1).
IndexOf(self, value) ==
    IF \E i \in DOMAIN self : self[i] = value
    THEN CHOOSE i \in DOMAIN self :
            self[i] = value /\ \A j \in DOMAIN self : self[j] = value => i <= j
    ELSE 0
LastIndexOf(self, value) ==
    IF \E i \in DOMAIN self : self[i] = value
    THEN CHOOSE i \in DOMAIN self :
            self[i] = value /\ \A j \in DOMAIN self : self[j] = value => i >= j
    ELSE 0

\* uniquePathFilter(value, index, self)
uniquePathFilter_Last(value, index, self) ==
    LastIndexOf([i \in DOMAIN self |-> self[i].path], value.path) = index
uniquePathFilter(value, index, self) ==
    IndexOf([i \in DOMAIN self |-> self[i].path], value.path) = index

\* self.filter(uniquePathFilter), from position `index` on
RECURSIVE FilterUniquePath(_, _)
FilterUniquePath(self, index) ==
    IF index > Len(self)
    THEN <<>>
    ELSE (IF uniquePathFilter(self[index], index, self) THEN <<self[index]>> ELSE <<>>)
             \o FilterUniquePath(self, index + 1)

\* list.filter(_ => _).map(parseAssetProperty(prefix)).filter(asset => asset.path)
\*     .filter(uniquePathFilter)
ParsedAssets(prefix, list) ==
    LET truthy == SelectSeq(list, Truthy)
        mapped == [i \in DOMAIN truthy |-> parseAssetProperty(prefix, truthy[i])]
        withPath == SelectSeq(mapped, HasPath)
    IN FilterUniquePath(withPath, 1)

\* One list of a merged configuration, before its pass.
InitAssets ==
    /\ InitSession
    /\ ctx.modeName \in {"spa", "ssr"}
    /\ ~ctx.dev
    /\ opts = [host |-> "", port |-> 0, verifyAddress |-> FALSE, watch |-> FALSE]
    /\ publicPath = <<>>
    /\ formatted = <<>>
    /\ calls = 0
    /\ routerBase = NoRouterBase
    /\ \E field \in {"css", "boot", "middlewares"} :
          assets \in {[field |-> field, list |-> l] : l \in AssetLists(field)}
    /\ parsed = NotParsed
    /\ NoPasses
    /\ NoMerge

\* `if (cfg.css.length > 0) { cfg.css = ... }`, the same for cfg.boot, and for
\* cfg.ssr.middlewares inside `if (this.#ctx.mode.ssr)`.
ParseAssets ==
    /\ ~parsed.ran
    /\ assets.field # "none"
    /\ parsed' =
           IF assets.field = "middlewares" /\ ~ctx.mode.ssr
           THEN [ran |-> FALSE, list |-> <<>>]
           ELSE [ran |-> TRUE,
                 list |-> IF Len(assets.list) > 0
                          THEN ParsedAssets(AssetPrefix(assets.field), assets.list)
                          ELSE assets.list]
    /\ parsed' # parsed     \* outside ssr mode ssr.middlewares is not touched
    /\ UNCHANGED <<sessVars, pathVars, passVars, mergeVars, assets>>

NextAssets == ParseAssets

SpecAssets == InitAssets /\ [][NextAssets]_vars

\* --------------------------------- #computeConfig on the configuration {}
\* cfg is followed as the set of its paths that hold a value; a pass reads
\* properties of some of them (`needs`), gives a value to others (`adds`) and
\* sets or deletes others (`drops`). No extension is installed, the address is
\* negotiated, the files validation passes, and it is the first derivation of the
\* session (#vueDevtools and #electronInspectPort are not set yet).
AllModes == {"spa", "ssr", "pwa", "electron", "cordova", "capacitor", "bex"}

\* this.#ctx.mode[ m ]
InMode(m) == IF m \in {"ssr", "pwa"} THEN ctx.mode[m] ELSE ctx.modeName = m

\* merge({ ctx: this.#ctx, boot: [], ... }, userCfg) with userCfg = {}
Skeleton ==
    {"ctx", "ctx.mode", "boot", "css", "extras", "animations",
     "framework", "framework.components", "framework.directives",
     "framework.plugins", "framework.config",
     "vendor", "vendor.add", "vendor.remove",
     "eslint", "eslint.include", "eslint.exclude",
     "eslint.rawWebpackEslintPluginOptions", "eslint.rawEsbuildEslintOptions",
     "sourceFiles", "bin", "htmlVariables",
     "devServer", "devServer.server",
     "build", "build.esbuildTarget", "build.vueLoaderOptions",
     "build.vueLoaderOptions.transformAssetUrls", "build.sassLoaderOptions",
     "build.scssLoaderOptions", "build.stylusLoaderOptions",
     "build.lessLoaderOptions", "build.tsLoaderOptions", "build.env",
     "build.rawDefine", "build.envFiles", "build.webpackTranspileDependencies",
     "build.uglifyOptions", "build.uglifyOptions.compress",
     "build.uglifyOptions.mangle", "build.htmlMinifyOptions",
     "ssr", "ssr.middlewares", "pwa",
     "electron", "electron.preloadScripts", "electron.unPackagedInstallParams",
     "electron.packager", "electron.builder",
     "cordova", "capacitor", "capacitor.capacitorCliPreparationParams",
     "bex", "bex.contentScripts"}

None == {}
When(cond, paths) == IF cond THEN paths ELSE {}

\* The passes of #computeConfig between the merge and `return cfg`, in order.
Passes ==
    <<  \* 1, lines 540-572: metaConf, `cfg = { ...rawQuasarConf, metaConf }`
        [needs |-> None,
         adds |-> {"metaConf", "metaConf.versions", "metaConf.css"},
         drops |-> None],
        \* 2, lines 575-583: the ssr defaults
        [needs |-> None,
         adds |-> When(InMode("ssr"), {"ssr.pwa", "ssr.prodPort"}),
         drops |-> None],
        \* 3, lines 586-650: devServer host and port, `dev && mode.bex !== true`
        [needs |-> When(ctx.dev /\ ~InMode("bex"),
                        {"devServer"} \cup When(InMode("ssr"), {"ssr"})),
         adds |-> When(ctx.dev /\ ~InMode("bex"),
                       {"devServer.host", "devServer.port", "devServer.open"}),
         drops |-> None],
        \* 4, lines 652-702: css, boot, extras, animations, framework
        [needs |-> {"css", "boot", "extras", "animations", "framework",
                    "framework.config", "metaConf"},
         adds |-> {"framework.autoImportComponentCase"},
         drops |-> None],
        \* 5, lines 704-813: the eslint and build defaults; cfg.bex.minify is
        \* read when debugging is off in bex mode
        [needs |-> {"metaConf", "build"} \cup When(~ctx.dev /\ InMode("bex"), {"bex"}),
         adds |-> {"eslint.formatter", "build.distDir", "build.vueRouterMode",
                   "build.htmlFilename", "build.alias"},
         drops |-> None],
        \* 6, lines 815-823: the empty vendor.add and vendor.remove become void 0
        [needs |-> {"vendor", "vendor.add", "vendor.remove"},
         adds |-> None,
         drops |-> {"vendor.add", "vendor.remove"}],
        \* 7, lines 825-840: the transpile banner, esbuildTarget
        [needs |-> {"build", "metaConf", "build.esbuildTarget"},
         adds |-> {"build.esbuildTarget.browser", "build.esbuildTarget.node"},
         drops |-> None],
        \* 8, lines 842-880: vueRouterMode, distDir, publicPath, vueRouterBase
        [needs |-> {"build"} \cup When(ctx.dev /\ InMode("bex"), {"build.distDir"}),
         adds |-> {"build.publicPath", "build.vueRouterBase"},
         drops |-> None],
        \* 9, lines 884-911: sourceFiles, the store, preFetch
        [needs |-> {"sourceFiles", "metaConf"},
         adds |-> {"sourceFiles.store", "sourceFiles.pwaManifestFile",
                   "sourceFiles.pwaServiceWorker", "sourceFiles.bexManifestFile",
                   "preFetch"},
         drops |-> None],
        \* 10, lines 914-916: `mode.capacitor & cfg.capacitor...length === 0`
        \* evaluates both operands in every mode
        [needs |-> {"capacitor", "capacitor.capacitorCliPreparationParams"},
         adds |-> None,
         drops |-> None],
        \* 11, lines 922-968: devServer.server / https
        [needs |-> {"devServer"} \cup When(ctx.dev, {"devServer.server"}),
         adds |-> None,
         drops |-> None],
        \* 12, lines 975-995: the ssr block
        [needs |-> When(InMode("ssr"),
                        {"ssr", "ssr.middlewares", "metaConf", "ctx", "ctx.mode"}),
         adds |-> None,
         drops |-> None],
        \* 13, lines 997-1091: the devServer defaults and, with vue devtools on,
        \* `cfg.devServer.host.toLowerCase()`
        [needs |-> When(ctx.dev,
                        {"devServer", "build"}
                            \cup When(vueDevtools, {"devServer.host", "metaConf"})
                            \cup When(InMode("electron"), {"devServer.server"})),
         adds |-> When(ctx.dev,
                       {"devServer.hot", "devServer.client", "devServer.server.type",
                        "devServer.devMiddleware", "devServer.setupMiddlewares"}
                           \cup When(vueDevtools, {"metaConf.vueDevtools"})),
         drops |-> When(ctx.dev, {"devServer.open"})],
        \* 14, lines 1093-1110: build.gzip, not set
        [needs |-> {"build"},
         adds |-> None,
         drops |-> None],
        \* 15, lines 1112-1146: the pwa defaults, else the bex manifest
        [needs |-> IF InMode("pwa")
                   THEN {"pwa", "build", "build.env", "sourceFiles", "metaConf"}
                   ELSE When(InMode("bex"), {"metaConf", "sourceFiles"}),
         adds |-> When(InMode("pwa"), {"pwa.workboxMode", "pwa.swFilename"}),
         drops |-> None],
        \* 16, lines 1148-1160: metaConf.APP_URL
        [needs |-> IF ctx.dev
                   THEN {"devServer", "devServer.server", "build", "metaConf"}
                   ELSE When(InMode("cordova") \/ InMode("capacitor") \/ InMode("bex"),
                             {"metaConf"}),
         adds |-> When(ctx.dev \/ InMode("cordova") \/ InMode("capacitor")
                           \/ InMode("bex"), {"metaConf.APP_URL"}),
         drops |-> None],
        \* 17, lines 1162-1187: build.env, the env files
        [needs |-> {"build", "build.env", "metaConf"},
         adds |-> {"metaConf.fileEnv"},
         drops |-> None],
        \* 18, lines 1189-1281: electron
        [needs |-> When(InMode("electron"),
                        {"electron"} \cup When(~ctx.dev, {"ctx", "build", "electron.packager"})),
         adds |-> When(InMode("electron"),
                       IF ctx.dev THEN {"electron.inspectPort"} ELSE {"electron.bundler"}),
         drops |-> None],
        \* 19, lines 1283-1292: htmlVariables, the capacitor splash screen
        [needs |-> {"ctx", "build"}
                       \cup When(InMode("capacitor"),
                                 {"metaConf", "metaConf.versions", "capacitor"}),
         adds |-> {"htmlVariables.ctx", "htmlVariables.process"},
         drops |-> None] >>

\* The state after the merge of {} over the default skeleton (line 538), in every
\* mode, dev or build, with or without ctx.vueDevtools.
InitPasses ==
    /\ ctx \in Contexts(AllModes)
    /\ ctx0 = ctx
    /\ opts = [host |-> "", port |-> 0, verifyAddress |-> TRUE, watch |-> FALSE]
    /\ InitFields
    /\ publicPath = <<>>
    /\ formatted = <<>>
    /\ calls = 0
    /\ routerBase = NoRouterBase
    /\ assets = NoAssets
    /\ parsed = NotParsed
    /\ conf = Skeleton
    /\ pass = 1
    /\ threw = FALSE
    /\ vueDevtools \in BOOLEAN
    /\ NoMerge

\* The next pass runs: it throws a TypeError when it reads a property of a path
\* that holds no value, and else leaves its values in cfg.
DerivePass ==
    /\ ~threw
    /\ pass \in DOMAIN Passes
    /\ IF Passes[pass].needs \subseteq conf
       THEN /\ conf' = (conf \ Passes[pass].drops) \cup Passes[pass].adds
            /\ pass' = pass + 1
            /\ UNCHANGED threw
       ELSE /\ threw' = TRUE
            /\ UNCHANGED <<conf, pass>>
    /\ ctx' = IF pass = 12 THEN CtxAfterSsr(ctx, [ssr |-> [pwa |-> FALSE]]) ELSE ctx
    /\ UNCHANGED <<ctx0, opts, isWatching, isFirst, addrVars, addrObs, tailVars,
                   deriveObs, fileVars, endVars, result, delivered, cycle,
                   liveStarted, fired, userCfg, pathVars, assetVars, mergeVars,
                   vueDevtools>>

NextPasses == DerivePass

SpecPasses == InitPasses /\ [][NextPasses]_vars

\* ----------------------------------------- the merge and the list passes
\* getUniqueArray(original): Array.from(new Set(original))
getUniqueArray_Keep(original) == original
getUniqueArray(original) ==
    SelectSeq([i \in DOMAIN original |->
                  IF \E j \in 1..(i - 1) : original[j] = original[i]
                  THEN "" ELSE original[i]],
              LAMBDA e : e # "")

\* merge(a, b) of webpack-merge, path by path: a key only one side has is taken
\* from that side, two arrays are concatenated, and otherwise b's value wins.
MergeValue_Union(a, b) ==
    CASE b.kind = "absent" -> a
      [] a.kind = "list" /\ b.kind = "list" -> List(getUniqueArray(a.items \o b.items))
      [] OTHER -> b
MergeValue(a, b) ==
    CASE b.kind = "absent" -> a
      [] a.kind = "list" /\ b.kind = "list" -> List(a.items \o b.items)
      [] OTHER -> b
merge(a, b) == [f \in Fields |-> MergeValue(a[f], b[f])]

\* `if (![ 'kebab', 'pascal', 'combined' ].includes(cfg.framework
\* .autoImportComponentCase)) { cfg.framework.autoImportComponentCase = 'kebab' }`
ComponentCase_Keep(v) == v
ComponentCase(v) ==
    IF v.kind = "scalar" /\ v.value \in {"kebab", "pascal", "combined"}
    THEN v
    ELSE Scalar("kebab")

\* The defaults of the skeleton (466-538) and of cfg.eslint (704-714).
SkeletonDefaults ==
    [f \in Fields |->
        IF f \in {"extras", "framework.plugins", "eslint.include"} THEN List(<<>>) ELSE Absent]
EslintDefaults ==
    [f \in Fields |->
        CASE f = "eslint.include" -> List(<<>>)
          [] f = "eslint.formatter" -> Scalar("stylish")
          [] OTHER -> Absent]

\* What the user's function returned, before it is merged.
InitMerge ==
    /\ InitSession
    /\ ctx.modeName = "spa"
    /\ ~ctx.dev
    /\ opts = [host |-> "", port |-> 0, verifyAddress |-> FALSE, watch |-> FALSE]
    /\ publicPath = <<>>
    /\ formatted = <<>>
    /\ calls = 0
    /\ routerBase = NoRouterBase
    /\ assets = NoAssets
    /\ parsed = NotParsed
    /\ NoPasses
    /\ \E extras \in UserLists, plugins \in UserLists, include \in UserLists,
          case \in UserCases, formatter \in UserFormatters :
          userFields =
              [f \in Fields |->
                  CASE f = "extras" -> List(extras)
                    [] f = "framework.plugins" -> List(plugins)
                    [] f = "framework.autoImportComponentCase" -> case
                    [] f = "eslint.include" -> List(include)
                    [] f = "eslint.formatter" -> formatter]
    /\ rawQuasarConf = <<>>
    /\ merges = 0

\* `const rawQuasarConf = merge({ ...skeleton }, userCfg)`
MergeSkeleton ==
    /\ merges = 0
    /\ userFields # <<>>
    /\ rawQuasarConf' = merge(SkeletonDefaults, userFields)
    /\ merges' = 1
    /\ UNCHANGED <<sessVars, pathVars, assetVars, passVars, userFields>>

\* Lines 666-697: `if (cfg.extras.length > 0) { cfg.extras = getUniqueArray(...) }`,
\* the autoImportComponentCase check, `cfg.framework.plugins = getUniqueArray(...)`.
UniqueLists ==
    /\ merges = 1
    /\ rawQuasarConf' =
           [rawQuasarConf EXCEPT
               !["extras"] = IF Len(@.items) > 0 THEN List(getUniqueArray(@.items)) ELSE @,
               !["framework.autoImportComponentCase"] = ComponentCase(@),
               !["framework.plugins"] = List(getUniqueArray(@.items))]
    /\ merges' = 2
    /\ UNCHANGED <<sessVars, pathVars, assetVars, passVars, userFields>>

\* `cfg.eslint = merge({ ..., formatter: 'stylish', include: [], ... }, cfg.eslint)`
MergeEslint ==
    /\ merges = 2
    /\ rawQuasarConf' =
           [f \in Fields |->
               IF f \in {"eslint.include", "eslint.formatter"}
               THEN merge(EslintDefaults, rawQuasarConf)[f]
               ELSE rawQuasarConf[f]]
    /\ merges' = 3
    /\ UNCHANGED <<sessVars, pathVars, assetVars, passVars, userFields>>

NextMerge ==
    \/ MergeSkeleton
    \/ UniqueLists
    \/ MergeEslint

SpecMerge == InitMerge /\ [][NextMerge]_vars

\* ---------------------------------------------------------------- claims
\* A cycle has finished (its handler returned or ended the process).
CycleEnded == outcome.end # "none"

\* The latest cycle is a rebuild whose onEnd began after the first build was
\* delivered and after watch().
LiveCycle == opts.watch /\ cycle \in liveStarted

\* The latest cycle is a rebuild whose onEnd began after the first build was
\* delivered but before watch().
EarlyRebuild == opts.watch /\ cycle > 1 /\ cycle \notin liveStarted

\* Every value handed or about to be handed to the caller's watch callback.
Handed == {delivered[i] : i \in DOMAIN delivered} \cup {window[i] : i \in DOMAIN window}
             \cup (IF debounced.timer THEN {debounced.lastArgs} ELSE {})

\* C1: a failing rebuild cycle of a Live session only warns: the process keeps
\* running, the cycle does not call the debounced callback, and nothing but a
\* completely derived configuration ever reaches the callback.
C1_LiveFailureOnlyWarns ==
    /\ (LiveCycle /\ CycleEnded /\ outcome.kind # "none") =>
           /\ outcome.end = "warned"
           /\ proc = "running"
           /\ warned
           /\ ~scheduled
    /\ \A q \in Handed : q.stage = "complete"

C1_Witness ==
    /\ LiveCycle
    /\ outcome = [end |-> "warned", kind |-> "address"]
    /\ Len(delivered) = 1
    /\ ~debounced.timer

\* C2: in the session's first compilation cycle every error kind ends the
\* process; the cycle neither resolves/returns a configuration nor merely warns.
C2_FirstCycleErrorsFatal ==
    (cycle = 1 /\ CycleEnded /\ outcome.kind # "none") =>
        /\ outcome.end = "fatal"
        /\ proc = "exited"
        /\ readPromise.state = "pending"
        /\ Handed = {}

C2_Witness ==
    /\ opts.watch
    /\ cycle = 1
    /\ outcome = [end |-> "fatal", kind |-> "workbox"]
    /\ proc = "exited"

\* C3: the calls of the debounced callback made while its timer is pending
\* produce exactly one invocation of the caller's callback, with the argument
\* of the last of those calls.
C3_DebounceCoalesces ==
    /\ Len(delivered) + (IF debounced.timer THEN 1 ELSE 0) = opened
    /\ delivered # <<>> =>
           /\ fired.calls >= 1
           /\ delivered[Len(delivered)] = fired.last
    /\ debounced.timer =>
           /\ window # <<>>
           /\ debounced.lastArgs = window[Len(window)]

C3_Witness ==
    /\ fired.calls = 2
    /\ Len(delivered) = 1
    /\ delivered[1].src = 3
    /\ ~debounced.timer

\* C4: every configuration handed to the rebuild callback comes from a rebuild
\* whose onEnd began after the first build was delivered and after watch().
C4_OnlyLiveRebuildsDelivered ==
    \A q \in Handed : q.src \in liveStarted

C4_Witness ==
    /\ delivered # <<>>
    /\ \E c \in 2..cycle : c \notin liveStarted

\* C5 (as claimed): once the first compilation of a watch session has completed,
\* successfully or not, read()'s promise has been resolved, exactly once.
FirstCompleted == opts.watch /\ (cycle > 1 \/ (cycle = 1 /\ CycleEnded))

C5_Original ==
    FirstCompleted => (readPromise.state = "resolved" /\ resolves = 1)

\* C5 (amended): in watch mode the first compilation resolves read()'s promise
\* with its configuration when it succeeds and leaves it unresolved when it fails
\* (the cycle ends in fatal()); it never reaches the rebuild callback, and the
\* promise is resolved at most once per session.
C5_FirstBuildResolvesOnSuccess ==
    opts.watch =>
        /\ resolves <= 1
        /\ FirstCompleted =>
               \/ /\ readPromise.state = "resolved"
                  /\ resolves = 1
                  /\ readPromise.value.src = 1
                  /\ readPromise.value.stage = "complete"
               \/ /\ cycle = 1
                  /\ outcome.end = "fatal"
                  /\ readPromise.state = "pending"
                  /\ resolves = 0
        /\ \A q \in Handed : q.src # 1
        /\ cycle <= 1 => (opened = 0 /\ ~scheduled)

C5_Witness ==
    /\ opts.watch
    /\ cycle = 3
    /\ resolves = 1
    /\ readPromise.value.src = 1
    /\ delivered # <<>>

\* C6 (as claimed): a compile error in any compilation that completes while the
\* session is not Live ends the process.
C6_Original ==
    (opts.watch /\ CycleEnded /\ result /\ ~isWatching) => proc = "exited"

\* C6 (amended): a compile or execution error in the session's first compilation
\* ends the process; a rebuild that completes after the first build but before
\* watch() is discarded before its result is looked at, so its errors end nothing.
C6_EarlyErrorsFatalOnlyInFirstBuild ==
    opts.watch =>
        /\ (cycle = 1 /\ CycleEnded /\ outcome.kind \in
                {"compile", "import", "notFunction", "userThrow", "notObject"}) =>
               (outcome.end = "fatal" /\ proc = "exited")
        /\ (cycle = 1 /\ CycleEnded /\ result) => outcome.kind = "compile"
        /\ (EarlyRebuild /\ CycleEnded) =>
               (outcome = [end |-> "discarded", kind |-> "none"] /\ proc = "running")

C6_Witness ==
    /\ EarlyRebuild
    /\ CycleEnded
    /\ result
    /\ proc = "running"

\* C7 (as claimed): a rebuild discarded because watch() was not yet called has
\* emitted a warning.
C7_Original ==
    outcome.end = "discarded" => warned

\* C7 (amended): every rebuild that completes after the first build but before
\* watch() is discarded silently: onEnd returns at once with no warning, no
\* configuration computed or scheduled, and the artifact left as compiled.
C7_EarlyRebuildDiscardedSilently ==
    /\ (EarlyRebuild /\ CycleEnded) =>
           /\ outcome.end = "discarded"
           /\ ~warned
           /\ ~scheduled
           /\ ~removed
           /\ cfg = Undefined
    /\ outcome.end = "discarded" => EarlyRebuild

C7_Witness ==
    /\ outcome.end = "discarded"
    /\ ~result
    /\ tempFile
    /\ isWatching

\* C8 (as claimed): in one-shot mode the artifact is gone on every exit path of
\* read().
C8_Original ==
    (~opts.watch /\ outcome.end \in {"success", "fatal"}) => ~tempFile

\* C8 (amended): in one-shot mode the artifact is gone after a successful return
\* and after a fatal compile failure, non-function export, non-object result and
\* every later derivation failure; it is left on disk exactly when the import
\* fails or the user function throws.
C8_OneShotArtifactRemoval ==
    (~opts.watch /\ outcome.end \in {"success", "fatal"}) =>
        (tempFile <=> outcome.kind \in {"import", "userThrow"})

C8_Witness ==
    /\ ~opts.watch
    /\ outcome = [end |-> "fatal", kind |-> "notObject"]
    /\ removed
    /\ ~tempFile

\* C9 (as claimed): in watch mode a cycle that succeeds or ends with a warning
\* has not deleted the artifact.
C9_Original ==
    (opts.watch /\ outcome.end \in {"success", "warned"}) => ~removed

\* C9 (amended): in watch mode the artifact is deleted by every cycle in which
\* the user function returns an object (hence by every successful cycle) and by
\* cycles failing on compile errors, a non-function export or a non-object result,
\* fatal or warned alike; it is kept only by cycles failing at the import or in
\* the user function, and by rebuilds discarded before watch().
C9_WatchArtifactRemoval ==
    (opts.watch /\ CycleEnded) =>
        /\ outcome.end = "success" => (removed /\ ~tempFile)
        /\ outcome.kind \in {"compile", "notFunction", "notObject", "extHook",
                             "address", "files", "workbox"} => ~tempFile
        /\ outcome.kind \in {"notFunction", "notObject", "extHook", "address",
                             "files", "workbox"} => removed
        /\ outcome.kind \in {"import", "userThrow"} => (tempFile /\ ~removed)
        /\ outcome.end = "discarded" => ~removed

C9_Witness ==
    /\ opts.watch
    /\ cycle = 2
    /\ outcome.end = "success"
    /\ removed
    /\ proc = "running"

\* C10 (as claimed): a cycle that requests a pair negotiated successfully at any
\* earlier time in the session does not call onAddress.
C10_Original ==
    pc = "onAddress" => request \notin negotiated

\* C10 (amended): a cycle is served from the cache, taking the stored bound pair
\* and calling no onAddress, exactly when it requests the pair of the most recent
\* successful negotiation (the stored #address.from); any other request is
\* negotiated afresh, even one negotiated earlier in the session.
C10_CacheServesLatestRequestOnly ==
    (ctx.dev /\ pc \in {"onAddress", "derive"}) =>
        /\ hit <=> sameAsStored
        /\ hit => /\ ~probed
                  /\ request = address.from
                  /\ cfg.host = address.to.host
                  /\ cfg.port = address.to.port
        /\ probed => ~hit
        /\ pc = "onAddress" => probed

C10_Witness ==
    /\ pc = "derive"
    /\ hit
    /\ opts.verifyAddress
    /\ address.to.port # address.from.port
    /\ cfg.port = address.to.port

\* C11: when the negotiation of the dev-server address fails, the process ends if
\* no address was bound before in the session; otherwise onAddress answers null
\* without ending the process, and in a Live cycle the derivation then only
\* warns: no configuration is scheduled or delivered and the stored #address is
\* left as it was.
C11_AddressFailure ==
    [][(pc = "onAddress" /\ pc' \notin {"onAddress", "derive"}) =>
           /\ outcome'.kind = "address"
           /\ negotiated = {} => (proc' = "exited" /\ outcome'.end = "fatal")
           /\ negotiated # {} =>
                  /\ proc' = "running"
                  /\ LiveCycle =>
                         /\ outcome'.end = "warned"
                         /\ warned'
                         /\ ~scheduled'
                         /\ debounced' = debounced
                         /\ delivered' = delivered
           /\ address' = address
           /\ prevAddress' = prevAddress
           /\ negotiated' = negotiated]_vars

C11_Witness ==
    /\ LiveCycle
    /\ probed
    /\ outcome = [end |-> "warned", kind |-> "address"]
    /\ address.set
    /\ address.from # request
    /\ proc = "running"

\* C12 (as claimed): #address is overwritten only by a negotiation whose bound
\* pair differs from the bound pair stored before it.
C12_Original ==
    prevAddress.set => address.to # prevAddress.to

\* C12 (amended): #address is written by every successful negotiation and by
\* nothing else. A negotiation happens exactly when the requested pair differs
\* from the stored requested pair, and it stores the new requested pair with the
\* pair it bound, also when that bound pair equals the one stored before; a cycle
\* served from the cache leaves #address as it is.
C12_StoredOnEveryNegotiation ==
    /\ [](/\ (ctx.dev /\ pc = "derive") =>
                 address = [set |-> TRUE, from |-> request,
                            to |-> [host |-> cfg.host, port |-> cfg.port]]
          /\ prevAddress.set => prevAddress.from # address.from
          /\ address.set => address.from \in negotiated)
    /\ [][/\ address' # address =>
                 /\ pc \in {"extHook", "onAddress"}
                 /\ pc' = "derive"
                 /\ ~hit'
                 /\ prevAddress' = address
                 /\ address'.from = request'
                 /\ ~(address.set /\ address.from = request')
          /\ (pc = "extHook" /\ hit') => address' = address]_vars

C12_Witness ==
    /\ pc = "derive"
    /\ probed
    /\ prevAddress.set
    /\ address.to = prevAddress.to
    /\ address.from # prevAddress.from

C15_DeliveredInEmissionOrder ==
    /\ \A i \in DOMAIN delivered : \E j \in DOMAIN derived : derived[j] = delivered[i]
    /\ \A i, j \in DOMAIN delivered : i < j => delivered[i].src < delivered[j].src
    /\ \A i, j \in DOMAIN derived : i < j => derived[i].src < derived[j].src
    /\ \A j \in DOMAIN derived :
           /\ derived[j].stage = "complete"
           /\ derived[j].src \in liveStarted
    /\ debounced.timer => \E j \in DOMAIN derived : derived[j] = debounced.lastArgs

C15_Witness ==
    /\ Len(derived) = 2
    /\ Len(delivered) = 2
    /\ delivered[1] = derived[1]
    /\ delivered[2] = derived[2]
    /\ derived[1].port # derived[2].port

\* C16 (as claimed): when the callback is invoked, what it receives comes from the
\* latest rebuild that had completed by then, whatever the result of that rebuild.
C16_Original ==
    delivered # <<>> => delivered[Len(delivered)].src = fired.completed

\* C16 (amended): a pending delivery is superseded by every later rebuild that
\* derives a configuration: what is pending, and what the callback receives, is
\* the configuration of the latest successfully derived rebuild. A later rebuild
\* that fails only warns: it neither replaces nor cancels the pending delivery,
\* which still reaches the callback after the failed rebuild has completed.
C16_SupersededBySuccessfulRebuild ==
    /\ [](debounced.timer =>
             /\ derived # <<>>
             /\ debounced.lastArgs = derived[Len(derived)])
    /\ [][/\ delivered' # delivered =>
                 /\ debounced.timer
                 /\ delivered' = Append(delivered, derived[Len(derived)])
          /\ (debounced.timer /\ outcome.end = "none" /\ outcome'.end = "warned") =>
                 debounced' = debounced]_vars

C16_Witness ==
    /\ delivered # <<>>
    /\ delivered[Len(delivered)].src < fired.completed
    /\ fired.calls = 1
    /\ outcome.end = "warned"

\* C17: what #computeConfig hands back is either a configuration on which every
\* pass has run or nothing: a failing extension hook, address negotiation, files
\* validation or workboxMode check ends the process when failOnError and else
\* warns and returns undefined, never a partly derived configuration.
C17_CompleteOrNothing ==
    /\ returned = Undefined \/ (returned.stage = "complete" /\ returned.src = cycle)
    /\ CycleEnded =>
           /\ outcome.end = "success" <=> returned # Undefined
           /\ outcome.kind \in {"extHook", "address", "files", "workbox"} =>
                  /\ returned = Undefined
                  /\ IF FailOnError
                     THEN outcome.end = "fatal" /\ proc = "exited"
                     ELSE outcome.end = "warned" /\ warned /\ proc = "running"
    /\ readPromise.state = "resolved" => readPromise.value.stage = "complete"

C17_Witness ==
    /\ outcome = [end |-> "warned", kind |-> "files"]
    /\ returned = Undefined
    /\ probed
    /\ request = address.from
    /\ debounced.timer

\* C18 (as claimed): the derivation goes on past the shape checks only with a
\* plain object returned by the user's function.
C18_Original ==
    pc = "extHook" => userCfg.shape = "object"

\* C18 (amended): the module is accepted when its default export is a function
\* whose returned value is not a primitive, null or undefined: plain objects, but
\* arrays and functions as well, go on to the merge. A non-function export and a
\* primitive, null or undefined result are reported as errors and produce no
\* configuration.
C18_AcceptsEveryNonPrimitive ==
    /\ pc \in {"extHook", "onAddress", "derive"} =>
           userCfg.shape \in {"object", "array", "function"}
    /\ outcome.end = "success" => userCfg.shape \in {"object", "array", "function"}
    /\ (CycleEnded /\ userCfg.shape \in {"primitive", "null", "undefined"}) =>
           /\ outcome.kind = "notObject"
           /\ outcome.end \in {"fatal", "warned"}
           /\ returned = Undefined
    /\ outcome.kind = "notObject" => userCfg.shape \in {"primitive", "null", "undefined"}
    /\ outcome.kind = "notFunction" => (userCfg = NoUserCfg /\ returned = Undefined)

C18_Witness ==
    /\ pc = "extHook"
    /\ userCfg.shape = "array"
    /\ cfg.stage = "merged"
    /\ ~tempFile

\* What two resolved configurations are compared on (the cycle stamp aside).
Content(q) == [host |-> q.host, port |-> q.port, ssr |-> q.ssr, stage |-> q.stage]

\* A later derivation of the session has succeeded on what the first one was given.
SameInputsAgain ==
    /\ cycle > 1
    /\ outcome.end = "success"
    /\ userCfg = firstRun.inp

\* C19 (as claimed): a later derivation given what the session's first derivation
\* was given resolves to the same configuration.
C19_Original ==
    SameInputsAgain => Content(returned) = Content(readPromise.value)

\* C19 (amended): a later derivation given what the first was given resolves to
\* the same configuration when the dev-server address is not negotiated (not dev,
\* or verifyAddress off) or when it is served from #address as the first
\* derivation left it. Once a negotiation for another requested pair has replaced
\* #address, the same inputs are negotiated afresh and may bind another port.
C19_SameResultWhenServedFromCache ==
    (/\ SameInputsAgain
     /\ \/ ~ctx.dev
        \/ ~opts.verifyAddress
        \/ (hit /\ address = firstRun.addr)) =>
        Content(returned) = Content(readPromise.value)

C19_Witness ==
    /\ SameInputsAgain
    /\ opts.verifyAddress
    /\ hit
    /\ address = firstRun.addr
    /\ address.to.port # address.from.port
    /\ returned.port = address.to.port

\* An http(s) URL: the string begins with http:// or https://, in any letter case.
IsHttpUrl(path) ==
    \E scheme \in {<<"h", "t", "t", "p">>, <<"h", "t", "t", "p", "s">>} :
        StartsWith(ToLowerCase(path), scheme \o <<":", "/", "/">>)

\* The string with `ch` put at that end of it where it is missing.
WithTrailing(path, ch) == IF EndsWith(path, <<ch>>) THEN path ELSE path \o <<ch>>
WithLeading(path, ch) == IF StartsWith(path, <<ch>>) THEN path ELSE <<ch>> \o path

\* The string begins with one slash and no more, and ends with one and no more.
OneSlashEachEnd(path) ==
    /\ StartsWith(path, <<"/">>) /\ ~StartsWith(path, <<"/", "/">>)
    /\ EndsWith(path, <<"/">>) /\ ~EndsWith(path, <<"/", "/">>)

\* What the claim and its amendment agree on: "" gives "/", an http(s) URL comes
\* back with only a trailing slash added when missing, the second application
\* returns what the first did.
C20_Common ==
    /\ (calls = 1 /\ publicPath = <<>>) => formatted = <<"/">>
    /\ (calls = 1 /\ IsHttpUrl(publicPath)) => formatted = WithTrailing(publicPath, "/")
    /\ calls = 2 => formatted = formatPublicPath(publicPath)

\* C20 (as claimed): moreover, every other input comes back as the input between
\* exactly one leading and exactly one trailing slash.
C20_Original ==
    /\ C20_Common
    /\ (calls = 1 /\ publicPath # <<>> /\ ~IsHttpUrl(publicPath)) =>
           /\ formatted = WithLeading(WithTrailing(publicPath, "/"), "/")
           /\ OneSlashEachEnd(formatted)

\* C20 (amended): formatPublicPath maps "" to "/", an http(s) URL to itself with
\* only a trailing slash added when missing, and any other input to the input
\* with a slash added in front and at the end where one is missing; slashes the
\* input already has at either end, repeated ones too, are kept. Applying it
\* twice gives what applying it once gives.
C20_AddsMissingSlashes ==
    /\ C20_Common
    /\ (calls = 1 /\ publicPath # <<>> /\ ~IsHttpUrl(publicPath)) =>
           formatted = WithLeading(WithTrailing(publicPath, "/"), "/")
    /\ calls >= 1 => (StartsWith(formatted, <<"/">>) \/ IsHttpUrl(formatted))
    /\ calls >= 1 => EndsWith(formatted, <<"/">>)

C20_Witness ==
    /\ calls = 2
    /\ publicPath = <<"/", "/", "x">>
    /\ formatted = <<"/", "/", "x", "/">>

\* The part of an http(s) URL between its authority and its query or fragment.
UrlPath(url) ==
    LET lower == ToLowerCase(url)
        start == IF StartsWith(lower, <<"h", "t", "t", "p", "s">>) THEN 9 ELSE 8
        authority == Greedy(url, start, Chars \ {"/", "?", "#"})
        len == Greedy(url, start + authority, Chars \ {"?", "#"})
    IN SubSeq(url, start + authority, start + authority + len - 1)

\* The authority of the URL is a host, or a host, a colon and a decimal port.
PlainAuthority(url) ==
    LET lower == ToLowerCase(url)
        start == IF StartsWith(lower, <<"h", "t", "t", "p", "s">>) THEN 9 ELSE 8
        host == Greedy(url, start, Chars \ {":", "/", "?", "#"})
        p == start + host
        port == IF p <= Len(url) /\ url[p] = ":" THEN Greedy(url, p + 1, Digits) ELSE 0
        after == IF p <= Len(url) /\ url[p] = ":" THEN p + 1 + port ELSE p
    IN /\ (p <= Len(url) /\ url[p] = ":") => port > 0
       /\ (after > Len(url) \/ url[after] \in {"/", "?", "#"})

\* The router base has been derived from a build.publicPath that is an http(s)
\* URL, in a mode that keeps the public path.
BaseOfUrl ==
    /\ calls = 2
    /\ routerBase.derived
    /\ ctx.modeName \in {"spa", "pwa", "ssr"}
    /\ IsHttpUrl(publicPath)
    /\ PlainAuthority(publicPath)

\* C21 (as claimed): for every public path that is an http or https URL, the
\* scheme in any letter case, the derivation of the router base does not throw and
\* gives the URL's path between a leading and a trailing slash, without scheme,
\* host, port, query and fragment.
C21_Original ==
    BaseOfUrl =>
        /\ ~routerBase.threw
        /\ routerBase.value = WithLeading(WithTrailing(UrlPath(publicPath), "/"), "/")

\* The derivation throws on the URL httpS://x:11/x/x?x1#h.
C21_Witness ==
    /\ BaseOfUrl
    /\ publicPath = <<"h", "t", "t", "p", "S", ":", "/", "/", "x", ":", "1", "1",
                      "/", "x", "/", "x", "?", "x", "1", "#", "h">>
    /\ routerBase.threw

\* The path an entry stands for: what follows the override marker '~', or the
\* list's prefix, a slash and the entry.
Resolved(entry) ==
    IF StartsWith(entry.path, <<"~">>)
    THEN SubSeq(entry.path, 2, Len(entry.path))
    ELSE AssetPrefix(assets.field) \o <<"/">> \o entry.path

\* Positions of the entries that name a path: not null or '', with a path, and
\* with something left of it once resolved.
Naming ==
    {i \in DOMAIN assets.list :
        /\ assets.list[i].kind # "null"
        /\ assets.list[i].hasPath
        /\ ~(assets.list[i].kind = "string" /\ assets.list[i].path = <<>>)
        /\ Resolved(assets.list[i]) # <<>>}

\* C22: the pass over css, boot or ssr.middlewares resolves an entry that starts
\* with '~' to the rest of it and any other entry to prefix + '/' + entry; the
\* list it leaves has no two entries with the same path, holds every resolved path
\* of the input once, each by the first input entry resolving to it, in the order
\* of the input.
C22_FirstOccurrenceKept ==
    parsed.ran =>
        /\ \A k, l \in DOMAIN parsed.list :
               k # l => parsed.list[k].path # parsed.list[l].path
        /\ \A j \in Naming :
               \E k \in DOMAIN parsed.list : parsed.list[k].path = Resolved(assets.list[j])
        /\ \E f \in [DOMAIN parsed.list -> DOMAIN assets.list] :
               /\ \A k, l \in DOMAIN f : k < l => f[k] < f[l]
               /\ \A k \in DOMAIN f :
                      /\ f[k] \in Naming
                      /\ parsed.list[k].path = Resolved(assets.list[f[k]])
                      /\ parsed.list[k].tag = assets.list[f[k]].tag
                      /\ \A j \in Naming :
                             Resolved(assets.list[j]) = parsed.list[k].path => j >= f[k]

C22_Witness ==
    /\ parsed.ran
    /\ assets.field = "boot"
    /\ Len(assets.list) = 3
    /\ assets.list[1].kind = "object"
    /\ assets.list[1].path = <<"a">>
    /\ assets.list[2] = [kind |-> "string", hasPath |-> TRUE, path |-> <<"b">>,
                          tag |-> "none"]
    /\ assets.list[3] = [kind |-> "string", hasPath |-> TRUE,
                          path |-> <<"~", "b", "o", "o", "t", "/", "a">>, tag |-> "none"]
    /\ Len(parsed.list) = 2
    /\ parsed.list[1].tag = "server"
    /\ parsed.list[2].path = <<"b", "o", "o", "t", "/", "b">>

\* The top-level branches of the default skeleton, and metaConf.
TopLevel ==
    {"boot", "css", "extras", "animations", "framework", "vendor", "eslint",
     "sourceFiles", "bin", "htmlVariables", "devServer", "build", "ssr", "pwa",
     "electron", "cordova", "capacitor", "bex", "metaConf"}

\* `return cfg` has been reached.
Returned == pass = Len(Passes) + 1

\* C23 (as claimed): from the user configuration {}, in every mode, no pass
\* reads a property of a value that is undefined, the derivation reaches its
\* return, and every top-level branch of the skeleton and metaConf are in what
\* it returns.
C23_Original ==
    /\ ~threw
    /\ Returned => TopLevel \subseteq conf

\* The derivation throws in pass 13, in bex mode under `quasar dev` with vue
\* devtools on: no pass has given devServer.host a value.
C23_Witness ==
    /\ threw
    /\ pass = 13
    /\ ctx.dev
    /\ ctx.modeName = "bex"
    /\ vueDevtools
    /\ "devServer.host" \notin conf
    /\ TopLevel \subseteq conf

\* C24: #isWatching is set by watch() and by nothing else, and is never cleared:
\* the step that sets it changes nothing else of the session, no step takes it
\* back to false, and every rebuild whose onEnd begins after watch() and after
\* the first build is handled as a Live one, never discarded as not ready.
C24_LiveSetOnlyByWatch ==
    [][/\ isWatching => isWatching'
       /\ isWatching' # isWatching =>
              /\ opts.watch
              /\ UNCHANGED <<pc, cycle, isFirst, outcome, cfg, proc, readPromise,
                             debounced, delivered, address, tempFile, liveStarted>>
       /\ (isWatching /\ ~isFirst /\ pc = "onEnd" /\ pc' # "onEnd") =>
              /\ cycle \in liveStarted'
              /\ outcome'.end # "discarded"]_vars

C24_Witness ==
    /\ isWatching
    /\ cycle = 3
    /\ liveStarted = {2, 3}
    /\ outcome.end = "success"
    /\ Len(delivered) = 1

\* An earlier cycle of the session was a Live one that derived no configuration:
\* it ended with a warned failure.
WarnedEarlier ==
    \E c \in liveStarted :
        /\ c < cycle
        /\ \A j \in DOMAIN derived : derived[j].src # c

\* C25: in watch mode, a cycle that follows a warned failure and in which the
\* compilation, the import and the user's function succeed, the function
\* returning an object, has deleted the artifact: from that point to the next
\* compilation no temporary file is on disk, however the cycle ends.
C25_RemovedByNextAcceptedCycle ==
    (opts.watch /\ WarnedEarlier /\ IsObject(userCfg.shape)) =>
        /\ ~tempFile
        /\ removed
        /\ ~result

C25_Witness ==
    /\ opts.watch
    /\ cycle = 3
    /\ liveStarted = {2, 3}
    /\ derived # <<>>
    /\ derived[1].src = 3
    /\ userCfg.shape = "object"
    /\ ~tempFile

\* C26: onAddress replaces the host by the machine's external address only in
\* cordova or capacitor mode and only for a requested host that is empty or a
\* loopback/any-interface address; every other negotiated host is the requested
\* one. getExternalIP() is called at most once in the process: the first rewrite
\* stores its answer and every later rewrite takes the stored value.
C26_ExternalHostLookedUpOnce ==
    /\ lookups <= 1
    /\ lookups = (IF cachedExternalHost = "" THEN 0 ELSE 1)
    /\ cachedExternalHost \in {"", ExternalIP}
    /\ cachedExternalHost # "" => ctx.modeName \in {"cordova", "capacitor"}
    /\ (ctx.dev /\ pc = "derive") =>
           /\ cfg.host = ExternalIP <=>
                  /\ opts.verifyAddress
                  /\ ctx.modeName \in {"cordova", "capacitor"}
                  /\ (request.host = "" \/ request.host \in localHostList)
           /\ cfg.host # ExternalIP => cfg.host = request.host
           /\ cfg.host = ExternalIP => cachedExternalHost = ExternalIP

C26_Witness ==
    /\ pc = "derive"
    /\ probed
    /\ cycle = 3
    /\ lookups = 1
    /\ cfg.host = ExternalIP
    /\ prevAddress.set
    /\ prevAddress.to.host = ExternalIP
    /\ prevAddress.from # request

\* The list holds no entry twice.
NoRepeat(l) == \A i, j \in DOMAIN l : i # j => l[i] # l[j]

\* The entries of a list, as a set.
Entries(l) == {l[i] : i \in DOMAIN l}

\* The list is l with every repetition of an earlier entry left out.
FirstOccurrences(l) ==
    SelectSeq([i \in DOMAIN l |-> [e |-> l[i], first |-> \A j \in 1..(i - 1) : l[j] # l[i]]],
              LAMBDA x : x.first)

ListFields == {"extras", "framework.plugins", "eslint.include"}

C28_CaseNormalised ==
    /\ merges >= 2 =>
           LET given == userFields["framework.autoImportComponentCase"]
               case == rawQuasarConf["framework.autoImportComponentCase"]
           IN /\ case.kind = "scalar"
              /\ case.value \in {"kebab", "pascal", "combined"}
              /\ case = IF given \in {Scalar("kebab"), Scalar("pascal"), Scalar("combined")}
                        THEN given ELSE Scalar("kebab")
    /\ merges = 1 =>
           rawQuasarConf["framework.autoImportComponentCase"] =
               userFields["framework.autoImportComponentCase"]

C28_Witness ==
    /\ merges = 3
    /\ userFields["framework.autoImportComponentCase"] = Scalar("camel")
    /\ rawQuasarConf["framework.autoImportComponentCase"] = Scalar("kebab")

\* The configuration the caller holds: the argument of the latest invocation of
\* its watch callback, else what read()'s promise resolved with.
Holding ==
    IF delivered # <<>> THEN delivered[Len(delivered)] ELSE readPromise.value

\* devServer.host/port of a configuration.
DevServerOf(q) == [host |-> q.host, port |-> q.port]

\* No cycle is running and no delivery is pending.
Quiet == pc \in {"idle", "done"} /\ ~debounced.timer

\* C29 (as claimed): whenever #address is set, its bound pair is the devServer
\* host/port of the configuration the caller holds; a Live cycle that ends with a
\* warning has left #address as it was. Read at rest only: no cycle is running
\* and no delivery is pending.
C29_Original ==
    (Quiet /\ address.set /\ Holding # Undefined) =>
        address.to = DevServerOf(Holding)

\* A Live rebuild negotiated a pair other than the one the caller's configuration
\* has, stored it, and then failed files validation: the session is at rest,
\* nothing new reached the caller and #address holds the new pair.
C29_Witness ==
    /\ LiveCycle
    /\ Quiet
    /\ outcome = [end |-> "warned", kind |-> "files"]
    /\ ~hit
    /\ address = [set |-> TRUE, from |-> request, to |-> address.to]
    /\ prevAddress.set
    /\ prevAddress.to = DevServerOf(Holding)
    /\ address.to # DevServerOf(Holding)
    /\ delivered = <<>>

\* C30 (as claimed): once rebuilds have stopped, if the last rebuild that
\* completed after the first build, before watch() or after it, compiled without
\* errors and no derivation of it failed, the caller holds the configuration of
\* that rebuild.
C30_Original ==
    (Quiet /\ cycle > 1 /\ ~result /\ outcome.end \in {"success", "discarded"}) =>
        Holding.src = cycle

\* C30 (amended): a rebuild that completes before watch() is discarded without
\* being derived, whatever it compiled to, and nothing re-derives it when watch()
\* is called later: the caller goes on holding what it held. A rebuild that
\* completes after watch() and derives a configuration hands it to the debounced
\* callback, and unless another rebuild starts first the callback is invoked
\* with it: at rest the caller holds the configuration of that rebuild.
C30_LastLiveRebuildDelivered ==
    /\ []((EarlyRebuild /\ CycleEnded) =>
              /\ outcome.end = "discarded"
              /\ returned = Undefined
              /\ ~scheduled
              /\ Holding.src < cycle)
    /\ []((LiveCycle /\ outcome.end = "success") =>
              /\ scheduled
              /\ IF debounced.timer
                 THEN debounced.lastArgs = returned
                 ELSE Holding = returned
              /\ returned.src = cycle)
    /\ (LiveCycle /\ outcome.end = "success")
           ~> (outcome.end = "none" \/ (Quiet /\ Holding.src = cycle))

C30_Witness ==
    /\ LiveCycle
    /\ outcome.end = "success"
    /\ Quiet
    /\ cycle = 3
    /\ 2 \notin liveStarted
    /\ delivered = <<returned>>
    /\ Holding.src = 3
====
